---- MODULE Spec2Model ----
(***************************************************************************)
(* A model of the demo-premium-school proxy: the Express router of         *)
(* src/app.js and of its sibling deployment src/unnamed/part_000, and the  *)
(* recursive PhotoURL resolver processImageUrlsToBase64 both files hold.   *)
(*                                                                         *)
(* JSON values are tagged records, each tag with a value field of its own; *)
(* an object is the sequence of its <<key, value>> members in insertion    *)
(* order, as JSON.parse builds it.                                         *)
(***************************************************************************)
EXTENDS Integers, Sequences, FiniteSets, TLC

VARIABLES
    deployment,   \* which router is deployed: "app.js" or "part_000"
    ghConfigured, \* GITHUB_API_TOKEN, GITHUB_OWNER and GITHUB_REPO are all set
    phase,        \* "idle" | "awaitGas" | "awaitGithub" | "sent" | "fault"
    req,          \* the request being handled: [route, action, body]
    gasCalls,     \* the bodies POSTed to GAS_URL for this request
    ghCalls,      \* the requests PUT to api.github.com for this request
    reply,        \* the outcome of this request's outbound call
    res,          \* the responses sent for this request
    payload,      \* the value handed to processImageUrlsToBase64
    images,       \* the image hosts: what fetch(url) yields for each URL
    resolved,     \* [val, log] once processImageUrlsToBase64 returned, else NotRun
    rphase        \* "ready" | "returned": whether the resolver ran

rvars == <<payload, images, resolved, rphase>>
hvars == <<deployment, ghConfigured, phase, req, gasCalls, ghCalls, reply, res>>
vars == <<deployment, ghConfigured, phase, req, gasCalls, ghCalls, reply, res,
          payload, images, resolved, rphase>>

----------------------------------------------------------------------------
(* Bounds of the model *)

\* The largest payload tree, counted in nodes (leaves, arrays, objects).
MaxNodes == 4

----------------------------------------------------------------------------
(* JSON values *)

JNull == [t |-> "null"]
JBool(b) == [t |-> "bool", b |-> b]
JNum(n) == [t |-> "num", n |-> n]
JStr(s) == [t |-> "str", s |-> s]
JArr(items) == [t |-> "arr", a |-> items]
JObj(members) == [t |-> "obj", o |-> members]

\* JavaScript's ToBoolean over JSON values: !x is ~Truthy(x).
Truthy(x) ==
    CASE x.t = "undefined" -> FALSE
      [] x.t = "null" -> FALSE
      [] x.t = "bool" -> x.b
      [] x.t = "num" -> x.n # 0
      [] x.t = "str" -> x.s # ""
      [] OTHER -> TRUE

\* typeof x === 'object': objects, arrays and null.
TypeofObject(x) == x.t \in {"null", "arr", "obj"}

\* String.prototype.startsWith
StartsWith(s, prefix) ==
    /\ Len(s) >= Len(prefix)
    /\ SubSeq(s, 1, Len(prefix)) = prefix

\* What reading a missing property yields.
Undefined == [t |-> "undefined"]

HasKey(obj, key) == obj.t = "obj" /\ \E i \in 1..Len(obj.o) : obj.o[i][1] = key

\* obj[key] for a value that is not null: undefined unless obj is an object
\* holding the key.
Get(obj, key) ==
    IF HasKey(obj, key)
    THEN obj.o[CHOOSE i \in 1..Len(obj.o) : obj.o[i][1] = key][2]
    ELSE Undefined

\* obj[key] = value on a member sequence: an existing key keeps its place.
Put(members, key, value) ==
    IF \E i \in 1..Len(members) : members[i][1] = key
    THEN [i \in 1..Len(members) |->
             IF members[i][1] = key THEN <<key, value>> ELSE members[i]]
    ELSE Append(members, <<key, value>>)

\* { ...target, ...source }: source's members written over target in order.
RECURSIVE Spread(_, _)
Spread(target, source) ==
    IF source = << >> THEN target
    ELSE Spread(Put(target, Head(source)[1], Head(source)[2]), Tail(source))

----------------------------------------------------------------------------
(* Buffer.prototype.toString('base64') *)

B64Alphabet ==
    << "A","B","C","D","E","F","G","H","I","J","K","L","M","N","O","P",
       "Q","R","S","T","U","V","W","X","Y","Z","a","b","c","d","e","f",
       "g","h","i","j","k","l","m","n","o","p","q","r","s","t","u","v",
       "w","x","y","z","0","1","2","3","4","5","6","7","8","9","+","/" >>

B64Char(n) == B64Alphabet[n + 1]

RECURSIVE Base64(_)
Base64(bytes) ==
    IF Len(bytes) = 0 THEN ""
    ELSE IF Len(bytes) = 1 THEN
        LET n == bytes[1] * 65536
        IN  B64Char(n \div 262144) \o B64Char((n \div 4096) % 64) \o "=="
    ELSE IF Len(bytes) = 2 THEN
        LET n == bytes[1] * 65536 + bytes[2] * 256
        IN  B64Char(n \div 262144) \o B64Char((n \div 4096) % 64)
              \o B64Char((n \div 64) % 64) \o "="
    ELSE
        LET n == bytes[1] * 65536 + bytes[2] * 256 + bytes[3]
        IN  B64Char(n \div 262144) \o B64Char((n \div 4096) % 64)
              \o B64Char((n \div 64) % 64) \o B64Char(n % 64)
              \o Base64(SubSeq(bytes, 4, Len(bytes)))

----------------------------------------------------------------------------
(* The image hosts *)

HttpUrl == "http://img.example/a.png"
HttpsUrl == "https://img.example/b.jpg"
ImageUrls == {HttpUrl, HttpsUrl}

\* response.headers.get('content-type'): null when the header is absent.
NoHeader == [present |-> FALSE]
Header(value) == [present |-> TRUE, value |-> value]

\* What `await fetch(url)` followed by `await response.buffer()` can do.
FetchOutcomes ==
    { [kind |-> "ok", header |-> NoHeader, bytes |-> <<77, 97>>],
      [kind |-> "ok", header |-> Header(""), bytes |-> <<255>>],
      [kind |-> "ok", header |-> Header("image/png"), bytes |-> <<77, 97, 110>>],
      [kind |-> "ok", header |-> Header("image/gif"), bytes |-> <<0, 16, 131, 16>>],
      [kind |-> "status", status |-> 404],      \* response.ok is false
      [kind |-> "neterr"],                      \* fetch rejects
      [kind |-> "bodyerr"] }                    \* response.buffer() rejects

ImageHosts == [ImageUrls -> FetchOutcomes]

----------------------------------------------------------------------------
(* processImageUrlsToBase64 *)

\* Mutant: the test on the key name is dropped.
IsRemotePhotoAnyKey(key, value) ==
    /\ value.t = "str"
    /\ (StartsWith(value.s, "http://") \/ StartsWith(value.s, "https://"))

\* key === 'PhotoURL' && typeof data[key] === 'string' &&
\*   (data[key].startsWith('http://') || data[key].startsWith('https://'))
IsRemotePhoto(key, value) ==
    /\ key = "PhotoURL"
    /\ value.t = "str"
    /\ (StartsWith(value.s, "http://") \/ StartsWith(value.s, "https://"))

\* response.headers.get('content-type') || 'image/jpeg'
ContentTypeOf(header) ==
    IF header.present /\ header.value # "" THEN header.value ELSE "image/jpeg"

\* `data:${contentType};base64,${imageBuffer.toString('base64')}`
DataUri(contentType, bytes) ==
    "data:" \o contentType \o ";base64," \o Base64(bytes)

\* Mutant: a failed fetch clears the field.
AfterFetchClearsOnFailure(value, outcome) ==
    IF outcome.kind = "ok"
    THEN JStr(DataUri(ContentTypeOf(outcome.header), outcome.bytes))
    ELSE JStr("")

\* The try/catch around the fetch: what data[key] holds afterwards.
AfterFetch(value, outcome) ==
    IF outcome.kind = "ok"
    THEN JStr(DataUri(ContentTypeOf(outcome.header), outcome.bytes))
    ELSE value

RECURSIVE Resolve(_, _)
RECURSIVE ResolveItems(_, _, _)
RECURSIVE ResolveKeys(_, _, _)
RECURSIVE ResolveItemsFlat(_, _, _)

\* The body of the `for (const key in data)` loop for one member.
ResolveMember(member, env) ==
    LET key == member[1]
        fetches == IsRemotePhoto(key, member[2])
        value == IF fetches THEN AfterFetch(member[2], env[member[2].s])
                 ELSE member[2]
        inner == IF TypeofObject(value) THEN Resolve(value, env)
                 ELSE [val |-> value, log |-> << >>]
    IN  [val |-> <<key, inner.val>>,
         log |-> (IF fetches THEN <<member[2].s>> ELSE << >>) \o inner.log]

\* Mutant: an array nested directly in an array is not walked.
ResolveItemsFlat(items, i, env) ==
    IF i > Len(items) THEN [val |-> << >>, log |-> << >>]
    ELSE LET head == IF items[i].t = "arr"
                     THEN [val |-> items[i], log |-> << >>]
                     ELSE Resolve(items[i], env)
             rest == ResolveItemsFlat(items, i + 1, env)
         IN  [val |-> <<head.val>> \o rest.val, log |-> head.log \o rest.log]

\* for (const item of data) await processImageUrlsToBase64(item)
ResolveItems(items, i, env) ==
    IF i > Len(items) THEN [val |-> << >>, log |-> << >>]
    ELSE LET head == Resolve(items[i], env)
             rest == ResolveItems(items, i + 1, env)
         IN  [val |-> <<head.val>> \o rest.val, log |-> head.log \o rest.log]

\* for (const key in data) ...
ResolveKeys(members, i, env) ==
    IF i > Len(members) THEN [val |-> << >>, log |-> << >>]
    ELSE LET head == ResolveMember(members[i], env)
             rest == ResolveKeys(members, i + 1, env)
         IN  [val |-> <<head.val>> \o rest.val, log |-> head.log \o rest.log]

\* The value `data` holds after the call, and the URLs fetched, in order.
Resolve(data, env) ==
    IF ~Truthy(data) \/ ~TypeofObject(data) THEN [val |-> data, log |-> << >>]
    ELSE IF data.t = "arr"
    THEN LET r == ResolveItems(data.a, 1, env)
         IN  [val |-> JArr(r.val), log |-> r.log]
    ELSE LET r == ResolveKeys(data.o, 1, env)
         IN  [val |-> JObj(r.val), log |-> r.log]

----------------------------------------------------------------------------
(* The payloads of the resolver harness: every JSON tree of at most        *)
(* MaxNodes nodes over these leaves and keys.                              *)

Leaves ==
    { JNull, JNum(7), JStr(""), JStr("data:image/png;base64,TWE="),
      JStr(HttpUrl), JStr(HttpsUrl) }

KeySeqs ==
    [n \in 0..2 |->
        CASE n = 0 -> { << >> }
          [] n = 1 -> { <<"PhotoURL">>, <<"item">> }
          [] n = 2 -> { <<"PhotoURL", "item">>, <<"item", "PhotoURL">> }]

Zip(keys, values) == [i \in 1..Len(keys) |-> <<keys[i], values[i]>>]

\* TreesOf(n): the trees of exactly n nodes.  ForestsOf(n, k): the sequences
\* of k trees holding n nodes in all.
RECURSIVE TreesOf(_)
RECURSIVE ForestsOf(_, _)

TreesOf(n) ==
    IF n <= 0 THEN {}
    ELSE (IF n = 1 THEN Leaves ELSE {})
           \cup { JArr(f) : f \in UNION { ForestsOf(n - 1, k) : k \in 0..(n - 1) } }
           \cup UNION { { JObj(Zip(ks, f)) : ks \in KeySeqs[k], f \in ForestsOf(n - 1, k) }
                        : k \in 0..2 }

ForestsOf(n, k) ==
    IF k = 0 THEN (IF n = 0 THEN { << >> } ELSE {})
    ELSE IF n < k THEN {}
    ELSE UNION { { <<head>> \o tail : head \in TreesOf(m), tail \in ForestsOf(n - m, k - 1) }
                 : m \in 1..(n - k + 1) }

Payloads == UNION { TreesOf(n) : n \in 1..MaxNodes }

----------------------------------------------------------------------------
(* Idle values *)

NotRun == [val |-> JNull, log |-> << >>]

\* The URLs a value mentions anywhere.
RECURSIVE Mentioned(_)
Mentioned(v) ==
    CASE v.t = "str" -> {v.s} \cap ImageUrls
      [] v.t = "arr" -> UNION { Mentioned(v.a[i]) : i \in 1..Len(v.a) }
      [] v.t = "obj" -> UNION { Mentioned(v.o[i][2]) : i \in 1..Len(v.o) }
      [] OTHER -> {}

\* The image hosts a value can reach: a URL it does not mention is never
\* fetched, and its host is left unreachable.
HostsFor(v) ==
    { h \in ImageHosts :
        \A u \in ImageUrls \ Mentioned(v) : h[u] = [kind |-> "neterr"] }

NoRequest == [route |-> "none", action |-> "", body |-> JNull]
NoReply == [kind |-> "none"]
NoHosts == [u \in ImageUrls |-> [kind |-> "neterr"]]

----------------------------------------------------------------------------
(* The upstreams: the GAS endpoint and the GitHub contents API *)

\* response.ok
ResponseOk(status) == status >= 200 /\ status <= 299

PhotoRows ==
    JArr(<< JObj(<< <<"Name", JStr("A")>>, <<"PhotoURL", JStr(HttpUrl)>> >>),
            JObj(<< <<"PhotoURL", JStr(HttpsUrl)>>, <<"Name", JStr("B")>> >>) >>)

\* JSON.parse on the bodies the upstreams of this model send: the texts it
\* accepts, with the value each parses to.  Any other text makes it throw.
JsonTexts ==
    ( "null" :> JNull
   @@ "false" :> JBool(FALSE)
   @@ "42" :> JNum(42)
   @@ "\"ok\"" :> JStr("ok")
   @@ "[]" :> JArr(<< >>)
   @@ "{}" :> JObj(<< >>)
   @@ "{\"success\":true}" :> JObj(<< <<"success", JBool(TRUE)>> >>)
   @@ "{\"success\":false}" :> JObj(<< <<"success", JBool(FALSE)>> >>)
   @@ "{\"success\":false,\"error\":\"Invalid credentials\"}" :>
          JObj(<< <<"success", JBool(FALSE)>>,
                  <<"error", JStr("Invalid credentials")>> >>)
   @@ "{\"success\":true,\"data\":{\"foo\":\"bar\"}}" :>
          JObj(<< <<"success", JBool(TRUE)>>,
                  <<"data", JObj(<< <<"foo", JStr("bar")>> >>)>> >>)
   @@ "{\"success\":true,\"data\":[{\"Name\":\"A\",\"PhotoURL\":\"http://img.example/a.png\"},{\"PhotoURL\":\"https://img.example/b.jpg\",\"Name\":\"B\"}]}" :>
          JObj(<< <<"success", JBool(TRUE)>>, <<"data", PhotoRows>> >>)
   @@ "{\"success\":true,\"data\":{\"PhotoURL\":\"data:image/png;base64,TWE=\",\"logo\":\"http://img.example/a.png\"}}" :>
          JObj(<< <<"success", JBool(TRUE)>>,
                  <<"data", JObj(<< <<"PhotoURL", JStr("data:image/png;base64,TWE=")>>,
                                    <<"logo", JStr(HttpUrl)>> >>)>> >>)
   @@ "{\"success\":false,\"data\":{\"PhotoURL\":\"http://img.example/a.png\"}}" :>
          JObj(<< <<"success", JBool(FALSE)>>,
                  <<"data", JObj(<< <<"PhotoURL", JStr(HttpUrl)>> >>)>> >>)
   @@ "{\"content\":{\"download_url\":\"https://raw.example/images/1-a.png\"}}" :>
          JObj(<< <<"content",
                    JObj(<< <<"download_url",
                              JStr("https://raw.example/images/1-a.png")>> >>)>> >>)
   @@ "{\"content\":null}" :> JObj(<< <<"content", JNull>> >>)
   @@ "{\"message\":\"Bad credentials\"}" :>
          JObj(<< <<"message", JStr("Bad credentials")>> >>) )

NonJsonTexts == { "", "not json", "<!DOCTYPE html><title>Error</title>" }

ParseJSON(text) ==
    IF text \in DOMAIN JsonTexts
    THEN [ok |-> TRUE, value |-> JsonTexts[text]]
    ELSE [ok |-> FALSE, message |-> "Unexpected token in JSON at position 0"]

GasTexts ==
    NonJsonTexts \cup
    { "null", "false", "42", "\"ok\"", "[]", "{}",
      "{\"success\":true}", "{\"success\":false}",
      "{\"success\":false,\"error\":\"Invalid credentials\"}",
      "{\"success\":true,\"data\":{\"foo\":\"bar\"}}",
      "{\"success\":true,\"data\":[{\"Name\":\"A\",\"PhotoURL\":\"http://img.example/a.png\"},{\"PhotoURL\":\"https://img.example/b.jpg\",\"Name\":\"B\"}]}",
      "{\"success\":true,\"data\":{\"PhotoURL\":\"data:image/png;base64,TWE=\",\"logo\":\"http://img.example/a.png\"}}",
      "{\"success\":false,\"data\":{\"PhotoURL\":\"http://img.example/a.png\"}}" }

GithubTexts ==
    { "not json", "null", "{}",
      "{\"content\":{\"download_url\":\"https://raw.example/images/1-a.png\"}}",
      "{\"content\":null}",
      "{\"message\":\"Bad credentials\"}" }

NetError == [kind |-> "neterr", message |-> "request failed, reason: connect ECONNREFUSED"]
HttpReply(status, text) == [kind |-> "http", status |-> status, text |-> text]

\* What `await fetch(GAS_URL, ...)` and `await gasResponse.text()` can yield.
GasOutcomes ==
    {NetError} \cup { HttpReply(s, t) : s \in {200, 404, 503}, t \in GasTexts }

\* What `await fetch(GITHUB_API_URL, ...)` can yield.
GithubOutcomes ==
    {NetError} \cup { HttpReply(s, t) : s \in {200, 201, 401, 422}, t \in GithubTexts }

----------------------------------------------------------------------------
(* Responses *)

\* res.status(status).json(body), the body built by the handler.
Json(status, body) ==
    [status |-> status, type |-> "json", body |-> body, by |-> "router"]

\* res.status(status).json(result), the body being the parsed upstream body.
Forward(status, body) ==
    [status |-> status, type |-> "json", body |-> body, by |-> "upstream"]

\* res.status(status).send(text)
Text(status, text) ==
    [status |-> status, type |-> "text", body |-> JStr(text), by |-> "router"]

\* Mutant: the envelope is built without its error field.
EnvelopeNoError(error) ==
    JObj(<< <<"success", JBool(FALSE)>> >>)

\* { success: false, error }
Envelope(error) ==
    JObj(<< <<"success", JBool(FALSE)>>, <<"error", JStr(error)>> >>)

\* { success: false, error, details: error.message }
EnvelopeDetails(error, details) ==
    JObj(<< <<"success", JBool(FALSE)>>, <<"error", JStr(error)>>,
            <<"details", JStr(details)>> >>)

\* Mutant: a body that does not parse is answered with the upstream's status.
ParseFailureStatusUpstream(r) == r.status

\* The status sent when the upstream body does not parse.
ParseFailureStatus(r) == 500

\* res.status(status || 502).json(result || { success: false, error })
UpstreamFailure(status, result, error) ==
    IF Truthy(result)
    THEN Forward(IF status # 0 THEN status ELSE 502, result)
    ELSE Json(IF status # 0 THEN status ELSE 502, Envelope(error))

\* The TypeError a property read on null raises.
NullRead(key) == "Cannot read properties of null (reading '" \o key \o "')"

\* What a rejection of the async handler, raised outside its try block, leaves
\* behind: no response at all (Express 4), or the framework's own error page
\* (Express 5).
UnhandledOutcomes ==
    { << >>,
      << [status |-> 500, type |-> "html",
          body |-> JStr("Internal Server Error"), by |-> "express"] >> }

----------------------------------------------------------------------------
(* POST /login *)

\* Mutant: only the mobile is required.
LoginReadyMobileOnly(body) == Truthy(Get(body, "mobile"))

\* The negation of `!mobile || !password`.
LoginReady(body) ==
    Truthy(Get(body, "mobile")) /\ Truthy(Get(body, "password"))

\* { action: 'login', mobile, password }
LoginGasBody(body) ==
    JObj(<< <<"action", JStr("login")>>,
            <<"mobile", Get(body, "mobile")>>,
            <<"password", Get(body, "password")>> >>)

FieldValues == { Undefined, JNull, JStr(""), JNum(0), JStr("9876543210"), JNum(1234) }

Member(key, value) == IF value = Undefined THEN << >> ELSE << <<key, value>> >>

LoginBodies ==
    { JObj(Member("mobile", m) \o Member("password", p)) :
          m \in FieldValues, p \in FieldValues }

LoginRequest ==
    /\ phase = "idle"
    /\ \E body \in LoginBodies :
          /\ req' = [route |-> "login", action |-> "", body |-> body]
          /\ IF ~LoginReady(body)
             THEN /\ res' = <<Json(400, Envelope("Mobile and password required"))>>
                  /\ phase' = "sent"
                  /\ gasCalls' = gasCalls
             ELSE /\ gasCalls' = Append(gasCalls, LoginGasBody(body))
                  /\ phase' = "awaitGas"
                  /\ res' = res
    /\ UNCHANGED <<deployment, ghConfigured, ghCalls, reply>>
    /\ UNCHANGED rvars

\* The handler from `await gasResponse.text()` on.
LoginResponse(r) ==
    IF r.kind = "neterr"
    THEN Json(500, EnvelopeDetails("Proxy server error during login.", r.message))
    ELSE LET parsed == ParseJSON(r.text)
         IN  IF ~parsed.ok
             THEN Json(ParseFailureStatus(r),
                       Envelope("GAS returned non-JSON response. Status: "
                                    \o ToString(r.status)))
             ELSE IF ~ResponseOk(r.status)
             THEN UpstreamFailure(r.status, parsed.value,
                                  "Upstream GAS error: " \o ToString(r.status))
             ELSE Forward(200, parsed.value)

GasReplyLogin ==
    /\ phase = "awaitGas"
    /\ req.route = "login"
    /\ \E r \in GasOutcomes :
          /\ reply' = r
          /\ res' = Append(res, LoginResponse(r))
    /\ phase' = "sent"
    /\ UNCHANGED <<deployment, ghConfigured, req, gasCalls, ghCalls>>
    /\ UNCHANGED rvars

----------------------------------------------------------------------------
(* POST /api/:action *)

Actions == { "echo", "getStudents" }

ApiBodies ==
    { JObj(<< >>),
      JObj(<< <<"foo", JStr("bar")>> >>),
      JObj(<< <<"action", JStr("deleteAll")>> >>),
      JObj(<< <<"foo", JStr("bar")>>, <<"action", JStr("deleteAll")>>,
              <<"id", JNum(7)>> >>),
      JObj(<< <<"action", JNull>>, <<"foo", JNull>> >>),
      JObj(<< <<"PhotoURL", JStr(HttpUrl)>> >>) }

\* { action, ...payload }
ApiGasBody(action, body) ==
    JObj(Spread(<< <<"action", JStr(action)>> >>, body.o))

ApiRequest ==
    /\ phase = "idle"
    /\ \E action \in Actions, body \in ApiBodies :
          /\ req' = [route |-> "api", action |-> action, body |-> body]
          /\ IF action = ""
             THEN /\ res' = <<Json(400, Envelope("Action parameter is required"))>>
                  /\ phase' = "sent"
                  /\ gasCalls' = gasCalls
             ELSE /\ gasCalls' = Append(gasCalls, ApiGasBody(action, body))
                  /\ phase' = "awaitGas"
                  /\ res' = res
    /\ UNCHANGED <<deployment, ghConfigured, ghCalls, reply>>
    /\ UNCHANGED rvars

\* result.success && result.data, with the resolver call compiled in.
RunsResolver(dep, result) ==
    /\ dep = "part_000"
    /\ Truthy(Get(result, "success"))
    /\ Truthy(Get(result, "data"))

\* The value the resolver is handed for an upstream outcome, JNull when it
\* is not called.
ResolverInput(dep, r) ==
    IF r.kind = "http" /\ ParseJSON(r.text).ok /\ ResponseOk(r.status)
         /\ ParseJSON(r.text).value # JNull
         /\ RunsResolver(dep, ParseJSON(r.text).value)
    THEN Get(ParseJSON(r.text).value, "data")
    ELSE JNull

ApiCatch(action, message) ==
    Json(500, EnvelopeDetails("Proxy server error during action: " \o action \o ".",
                              message))

\* The handler from `await gasResponse.text()` on: the response it sends and
\* the resolver call it makes.
ApiOutcome(dep, action, r, env) ==
    LET none == [ran |-> FALSE, input |-> JNull, out |-> NotRun]
    IN
    IF r.kind = "neterr"
    THEN [response |-> ApiCatch(action, r.message)] @@ none
    ELSE LET parsed == ParseJSON(r.text)
         IN  IF ~parsed.ok
             THEN [response |->
                      Json(ParseFailureStatus(r),
                           Envelope("GAS returned non-JSON response for action "
                                        \o action \o ". Status: " \o ToString(r.status)))]
                  @@ none
             ELSE IF ~ResponseOk(r.status)
             THEN [response |->
                      UpstreamFailure(r.status, parsed.value,
                                      "Upstream GAS error for " \o action \o ": "
                                          \o ToString(r.status))]
                  @@ none
             ELSE IF parsed.value = JNull
             THEN [response |-> ApiCatch(action, NullRead("success"))] @@ none
             ELSE IF RunsResolver(dep, parsed.value)
             THEN LET out == Resolve(Get(parsed.value, "data"), env)
                  IN  [response |->
                          Forward(200, JObj(Put(parsed.value.o, "data", out.val))),
                       ran |-> TRUE,
                       input |-> Get(parsed.value, "data"),
                       out |-> out]
             ELSE [response |-> Forward(200, parsed.value)] @@ none

GasReplyApi ==
    /\ phase = "awaitGas"
    /\ req.route = "api"
    /\ \E r \in GasOutcomes :
          \E env \in HostsFor(ResolverInput(deployment, r)) :
             LET o == ApiOutcome(deployment, req.action, r, env)
             IN  /\ reply' = r
                 /\ res' = Append(res, o.response)
                 /\ images' = env
                 /\ IF o.ran
                    THEN /\ payload' = o.input
                         /\ resolved' = o.out
                         /\ rphase' = "returned"
                    ELSE UNCHANGED <<payload, resolved, rphase>>
    /\ phase' = "sent"
    /\ UNCHANGED <<deployment, ghConfigured, req, gasCalls, ghCalls>>

----------------------------------------------------------------------------
(* POST /upload-image *)

SafeChars == { B64Alphabet[i] : i \in 1..62 } \cup { ".", "-" }

\* fileName.replace(/[^a-zA-Z0-9.\-]/g, '_')
RECURSIVE Sanitize(_)
Sanitize(name) ==
    IF Len(name) = 0 THEN ""
    ELSE (IF SubSeq(name, 1, 1) \in SafeChars THEN SubSeq(name, 1, 1) ELSE "_")
            \o Sanitize(SubSeq(name, 2, Len(name)))

\* new Date().getTime(), in seconds to stay within TLC's integers.
Clock == { 1718000000, 1718000001 }

UploadBodies ==
    { JObj(Member("image", i) \o Member("fileName", f)) :
          i \in { Undefined, JStr(""), JStr("iVBORw0KGgo=") },
          f \in { Undefined, JStr(""), JStr("my photo(1).png"), JNum(42),
                  JArr(<< JStr("a.png") >>) } }

\* The PUT the handler issues: its URL path, commit message and content.
GithubPut(now, body) ==
    LET sanitizedFileName == ToString(now) \o "-" \o Sanitize(Get(body, "fileName").s)
    IN  [path |-> "images/" \o sanitizedFileName,
         message |-> "Upload image: " \o sanitizedFileName,
         content |-> Get(body, "image")]

UploadRequest ==
    /\ phase = "idle"
    /\ deployment = "app.js"
    /\ \E body \in UploadBodies, now \in Clock, unhandled \in UnhandledOutcomes :
          /\ req' = [route |-> "upload", action |-> "", body |-> body]
          /\ IF ~ghConfigured
             THEN /\ res' = <<Json(500, Envelope("GitHub integration is not configured on the server."))>>
                  /\ phase' = "sent"
                  /\ ghCalls' = ghCalls
             ELSE IF ~Truthy(Get(body, "image")) \/ ~Truthy(Get(body, "fileName"))
             THEN /\ res' = <<Json(400, Envelope("Image data and file name are required."))>>
                  /\ phase' = "sent"
                  /\ ghCalls' = ghCalls
             ELSE IF Get(body, "fileName").t # "str"
             THEN \* fileName.replace is not a function: thrown before the try
                  /\ res' = unhandled
                  /\ phase' = "fault"
                  /\ ghCalls' = ghCalls
             ELSE /\ ghCalls' = Append(ghCalls, GithubPut(now, body))
                  /\ phase' = "awaitGithub"
                  /\ res' = res
    /\ UNCHANGED <<deployment, ghConfigured, gasCalls, reply>>
    /\ UNCHANGED rvars

UploadCatch(message) ==
    Json(500, EnvelopeDetails("Server error during image upload.", message))

\* String(result.message || 'Failed to upload file.')
GithubMessage(result) ==
    IF Truthy(Get(result, "message")) /\ Get(result, "message").t = "str"
    THEN Get(result, "message").s
    ELSE "Failed to upload file."

\* The handler from `await githubResponse.json()` on.
UploadResponse(r) ==
    IF r.kind = "neterr" THEN UploadCatch(r.message)
    ELSE LET parsed == ParseJSON(r.text)
         IN  IF ~parsed.ok THEN UploadCatch(parsed.message)
             ELSE IF parsed.value = JNull
             THEN UploadCatch(NullRead(IF ResponseOk(r.status) THEN "content"
                                       ELSE "message"))
             ELSE LET url == Get(Get(parsed.value, "content"), "download_url")
                  IN  IF ResponseOk(r.status) /\ Truthy(url)
                      THEN Json(200, JObj(<< <<"success", JBool(TRUE)>>,
                                             <<"url", url>> >>))
                      ELSE Json(IF r.status # 0 THEN r.status ELSE 502,
                                Envelope("GitHub API Error: "
                                             \o GithubMessage(parsed.value)))

GithubReply ==
    /\ phase = "awaitGithub"
    /\ \E r \in GithubOutcomes :
          /\ reply' = r
          /\ res' = Append(res, UploadResponse(r))
    /\ phase' = "sent"
    /\ UNCHANGED <<deployment, ghConfigured, req, gasCalls, ghCalls>>
    /\ UNCHANGED rvars

\* part_000 has no /upload-image route: the request falls to the final
\* app.use handler.
UploadUnrouted ==
    /\ phase = "idle"
    /\ deployment = "part_000"
    /\ \E body \in UploadBodies :
          req' = [route |-> "upload", action |-> "", body |-> body]
    /\ res' = <<Text(404, "Resource not found on proxy.")>>
    /\ phase' = "sent"
    /\ UNCHANGED <<deployment, ghConfigured, gasCalls, ghCalls, reply>>
    /\ UNCHANGED rvars

----------------------------------------------------------------------------
(* The server *)

\* The response is out and the request's data is dropped; the server takes
\* the next request.
Close ==
    /\ phase = "sent"
    /\ phase' = "idle"
    /\ req' = NoRequest
    /\ gasCalls' = << >>
    /\ ghCalls' = << >>
    /\ reply' = NoReply
    /\ res' = << >>
    /\ payload' = JNull
    /\ images' = NoHosts
    /\ resolved' = NotRun
    /\ rphase' = "ready"
    /\ UNCHANGED <<deployment, ghConfigured>>

Init ==
    /\ deployment \in { "app.js", "part_000" }
    /\ ghConfigured \in (IF deployment = "app.js" THEN BOOLEAN ELSE {FALSE})
    /\ phase = "idle"
    /\ req = NoRequest
    /\ gasCalls = << >>
    /\ ghCalls = << >>
    /\ reply = NoReply
    /\ res = << >>
    /\ payload = JNull
    /\ images = NoHosts
    /\ resolved = NotRun
    /\ rphase = "ready"

Next ==
    \/ LoginRequest
    \/ GasReplyLogin
    \/ ApiRequest
    \/ GasReplyApi
    \/ UploadRequest
    \/ GithubReply
    \/ UploadUnrouted
    \/ Close

Spec == Init /\ [][Next]_vars

----------------------------------------------------------------------------
(* The resolver harness *)

ResolverInit ==
    /\ deployment = "part_000"
    /\ ghConfigured = FALSE
    /\ phase = "idle"
    /\ req = NoRequest
    /\ gasCalls = << >>
    /\ ghCalls = << >>
    /\ reply = NoReply
    /\ res = << >>
    /\ payload \in Payloads
    /\ images \in HostsFor(payload)
    /\ resolved = NotRun
    /\ rphase = "ready"

\* await processImageUrlsToBase64(payload)
ResolveCall ==
    /\ rphase = "ready"
    /\ resolved' = Resolve(payload, images)
    /\ rphase' = "returned"
    /\ UNCHANGED <<payload, images>>
    /\ UNCHANGED hvars

ResolverNext == ResolveCall

ResolverSpec == ResolverInit /\ [][ResolverNext]_vars

----------------------------------------------------------------------------
(* Positions in a JSON tree: a path is the sequence of element / member    *)
(* indices from the root.                                                  *)

Child(v, i) == IF v.t = "arr" THEN v.a[i] ELSE v.o[i][2]

Size(v) == IF v.t = "arr" THEN Len(v.a) ELSE Len(v.o)

IsContainer(v) == v.t \in {"arr", "obj"}

RECURSIVE Paths(_)
Paths(v) ==
    { << >> } \cup
    (IF IsContainer(v)
     THEN UNION { { <<i>> \o p : p \in Paths(Child(v, i)) } : i \in 1..Size(v) }
     ELSE {})

RECURSIVE At(_, _)
At(v, p) == IF p = << >> THEN v ELSE At(Child(v, p[1]), Tail(p))

Parent(p) == SubSeq(p, 1, Len(p) - 1)

\* The key a position is stored under; "" for the root and for array elements.
KeyOf(v, p) ==
    IF p = << >> THEN ""
    ELSE LET par == At(v, Parent(p))
         IN  IF par.t = "obj" THEN par.o[p[Len(p)]][1] ELSE ""

Keys(obj) == [i \in 1..Len(obj.o) |-> obj.o[i][1]]

\* A string under a key named exactly PhotoURL beginning http:// or https://.
HttpPhotoAt(v, p) ==
    /\ KeyOf(v, p) = "PhotoURL"
    /\ At(v, p).t = "str"
    /\ \/ (Len(At(v, p).s) >= 7 /\ SubSeq(At(v, p).s, 1, 7) = "http://")
       \/ (Len(At(v, p).s) >= 8 /\ SubSeq(At(v, p).s, 1, 8) = "https://")

HasPhotoKey(v) == \E p \in Paths(v) : KeyOf(v, p) = "PhotoURL"

\* Same tree shape, key sequences and array lengths.
SameShape(a, b) ==
    /\ Paths(a) = Paths(b)
    /\ \A p \in Paths(b) :
          /\ At(a, p).t = At(b, p).t
          /\ At(b, p).t = "obj" => Keys(At(a, p)) = Keys(At(b, p))

----------------------------------------------------------------------------
(* Claims about processImageUrlsToBase64, checked under ResolverSpec *)

\* C3: the resolver changes nothing except http(s) strings stored under a key
\* named exactly PhotoURL: the shape, the key sequences, the array lengths and
\* order and every other leaf are the same after the call as before; a payload
\* with no PhotoURL key is left unchanged and no fetch is issued for it.
C3_ResolverFrame ==
    rphase = "returned" =>
        /\ SameShape(resolved.val, payload)
        /\ \A p \in Paths(payload) :
              (~IsContainer(At(payload, p)) /\ ~HttpPhotoAt(payload, p))
                  => At(resolved.val, p) = At(payload, p)
        /\ ~HasPhotoKey(payload)
              => (resolved.val = payload /\ resolved.log = << >>)

\* C3 witness: a call that replaced a PhotoURL and left an http string under
\* another key, or a non-http PhotoURL, beside it.
C3_Witness ==
    /\ rphase = "returned"
    /\ resolved.val # payload
    /\ \E p \in Paths(payload) :
          /\ p # << >>
          /\ ~HttpPhotoAt(payload, p)
          /\ At(payload, p).t = "str"
          /\ At(payload, p).s # ""

EveryFetchSucceeds ==
    \A p \in Paths(payload) :
        HttpPhotoAt(payload, p) => images[At(payload, p).s].kind = "ok"

\* C4 as stated: with every fetch succeeding, each http(s) PhotoURL string at
\* any depth becomes data:<content-type>;base64,<base64 of the bytes>, the
\* content type being the header, or image/jpeg when the header is absent.
C4_Original ==
    (rphase = "returned" /\ EveryFetchSucceeds) =>
        /\ \A p \in Paths(payload) :
              HttpPhotoAt(payload, p) =>
                  LET got == images[At(payload, p).s]
                      ct == IF got.header.present THEN got.header.value
                            ELSE "image/jpeg"
                  IN  At(resolved.val, p) =
                          JStr("data:" \o ct \o ";base64," \o Base64(got.bytes))
        /\ \A p \in Paths(resolved.val) : ~HttpPhotoAt(resolved.val, p)

\* C4 amended: the same, the content type being image/jpeg when the header is
\* absent or empty.
C4_AllPhotosInlined ==
    (rphase = "returned" /\ EveryFetchSucceeds) =>
        /\ \A p \in Paths(payload) :
              HttpPhotoAt(payload, p) =>
                  LET got == images[At(payload, p).s]
                      ct == IF got.header.present /\ got.header.value # ""
                            THEN got.header.value
                            ELSE "image/jpeg"
                  IN  At(resolved.val, p) =
                          JStr("data:" \o ct \o ";base64," \o Base64(got.bytes))
        /\ \A p \in Paths(resolved.val) : ~HttpPhotoAt(resolved.val, p)

\* C4 witness: a PhotoURL three levels down (an array of arrays of objects)
\* was inlined.
C4_Witness ==
    /\ rphase = "returned"
    /\ EveryFetchSucceeds
    /\ \E p \in Paths(payload) :
          /\ Len(p) = 3
          /\ HttpPhotoAt(payload, p)
          /\ payload.t = "arr"
          /\ At(payload, <<p[1]>>).t = "arr"
          /\ At(resolved.val, p) # At(payload, p)

----------------------------------------------------------------------------
(* Claims about the router, checked under Spec *)

InRange2xx(status) == status \in 200..299

\* The upstream replied over HTTP with a body that is JSON.
UpstreamSentJson == reply.kind = "http" /\ reply.text \in DOMAIN JsonTexts

\* The members of the request body other than `action`.
OtherFields(body) == { i \in 1..Len(body.o) : body.o[i][1] # "action" }

\* C1: on /api/:action the `action` field sent upstream equals the path
\* segment, whatever the body holds, and every other field of the body is
\* forwarded with its value.
C1_ActionFromPath ==
    req.route = "api" =>
        \A c \in 1..Len(gasCalls) :
            /\ Get(gasCalls[c], "action") = JStr(req.action)
            /\ \A i \in OtherFields(req.body) :
                  Get(gasCalls[c], req.body.o[i][1]) = req.body.o[i][2]

\* C2: a 2xx upstream reply to /api/:action whose body is any JSON value
\* holding no PhotoURL key is answered with status 200 and that value.
C2_SuccessBodyForwarded ==
    ( /\ phase = "sent"
      /\ req.route = "api"
      /\ UpstreamSentJson
      /\ InRange2xx(reply.status)
      /\ ~HasPhotoKey(JsonTexts[reply.text]) )
    => /\ Len(res) = 1
       /\ res[1].status = 200
       /\ res[1].body = JsonTexts[reply.text]

\* The upstream call of /api/:action succeeded with success:true.
UpstreamSucceeded ==
    /\ phase = "sent"
    /\ req.route = "api"
    /\ UpstreamSentJson
    /\ InRange2xx(reply.status)
    /\ Get(JsonTexts[reply.text], "success") = JBool(TRUE)

FetchFailed(url) == images[url].kind # "ok"

\* C5: a PhotoURL whose fetch fails (bad status, transport error, error while
\* reading the body) keeps its URL, the walk goes on to the other fields, and
\* the request is still answered 200 with the upstream body and success:true.
C5_ImageFailureIsBenign ==
    UpstreamSucceeded =>
        LET before == Get(JsonTexts[reply.text], "data")
            after == Get(res[1].body, "data")
        IN  /\ Len(res) = 1
            /\ res[1].status = 200
            /\ res[1].type = "json"
            /\ Get(res[1].body, "success") = JBool(TRUE)
            /\ SameShape(res[1].body, JsonTexts[reply.text])
            /\ \A p \in Paths(before) :
                  (HttpPhotoAt(before, p) /\ FetchFailed(At(before, p).s))
                      => At(after, p) = At(before, p)
            /\ \A p \in Paths(before) :
                  (rphase = "returned" /\ HttpPhotoAt(before, p)
                       /\ ~FetchFailed(At(before, p).s))
                      => /\ At(after, p).t = "str"
                         /\ SubSeq(At(after, p).s, 1, 5) = "data:"

\* C5 witness: one photo failed and kept its URL, a later one was inlined, and
\* the response is 200.
C5_Witness ==
    /\ UpstreamSucceeded
    /\ rphase = "returned"
    /\ res[1].status = 200
    /\ \E p, q \in Paths(payload) :
          /\ HttpPhotoAt(payload, p) /\ HttpPhotoAt(payload, q)
          /\ p[1] < q[1]
          /\ FetchFailed(At(payload, p).s)
          /\ At(Get(res[1].body, "data"), p) = At(payload, p)
          /\ At(Get(res[1].body, "data"), q) # At(payload, q)

\* C6 as stated: every JSON response with success false has an error field.
C6_Original ==
    \A i \in 1..Len(res) :
        (res[i].type = "json" /\ Get(res[i].body, "success") = JBool(FALSE))
            => HasKey(res[i].body, "error")

\* The response body is the parsed upstream body, passed on as it came.
ForwardedVerbatim(r) == UpstreamSentJson /\ r.body = JsonTexts[reply.text]

\* C6 amended: every JSON response with success false whose body is not the
\* upstream's own body passed on verbatim has an error field.
C6_RouterEnvelopes ==
    \A i \in 1..Len(res) :
        ( /\ res[i].type = "json"
          /\ Get(res[i].body, "success") = JBool(FALSE)
          /\ ~ForwardedVerbatim(res[i]) )
            => /\ HasKey(res[i].body, "error")
               /\ Get(res[i].body, "error").t = "str"

\* C6 witness: an upstream reply was received and the router answered with an
\* envelope of its own.
C6_Witness ==
    /\ phase = "sent"
    /\ reply.kind = "http"
    /\ Len(res) = 1
    /\ res[1].type = "json"
    /\ Get(res[1].body, "success") = JBool(FALSE)
    /\ ~ForwardedVerbatim(res[1])

\* C7: every request gets exactly one response, and a failure raised while
\* handling it is always caught by the handler, never left unhandled.
C7_EveryFailureCaught ==
    /\ phase # "fault"
    /\ Len(res) <= 1
    /\ phase = "sent" => (Len(res) = 1 /\ res[1].by # "express")

Lacks(body, key) == ~HasKey(body, key) \/ Get(body, key) = JStr("")

\* C8: a /login body lacking mobile or password (absent or empty) is answered
\* 400 {success:false, error:'Mobile and password required'} and nothing is
\* ever sent upstream for it.
C8_LoginValidation ==
    (req.route = "login" /\ (Lacks(req.body, "mobile") \/ Lacks(req.body, "password")))
    => /\ phase = "sent"
       /\ gasCalls = << >>
       /\ reply = NoReply
       /\ Len(res) = 1
       /\ res[1].status = 400
       /\ res[1].type = "json"
       /\ res[1].body = JObj(<< <<"success", JBool(FALSE)>>,
                               <<"error", JStr("Mobile and password required")>> >>)

\* C8 witness: a login with a mobile and no password was answered.
C8_Witness ==
    /\ req.route = "login"
    /\ phase = "sent"
    /\ Truthy(Get(req.body, "mobile"))
    /\ ~HasKey(req.body, "password")

MentionsNonJson(error) ==
    /\ error.t = "str"
    /\ Len(error.s) >= 30
    /\ SubSeq(error.s, 1, 30) = "GAS returned non-JSON response"

\* C9: on /login and /api/:action an upstream body that is not JSON is answered
\* with status 500 and a success:false envelope naming the non-JSON response,
\* whatever the upstream status; the resolver is not run.
C9_NonJsonIs500 ==
    ( /\ phase = "sent"
      /\ req.route \in {"login", "api"}
      /\ reply.kind = "http"
      /\ reply.text \in NonJsonTexts )
    => /\ Len(res) = 1
       /\ res[1].status = 500
       /\ res[1].type = "json"
       /\ Get(res[1].body, "success") = JBool(FALSE)
       /\ MentionsNonJson(Get(res[1].body, "error"))
       /\ rphase = "ready"
       /\ resolved = NotRun

\* C9 witness: the upstream answered 503 with a body that is not JSON.
C9_Witness ==
    /\ phase = "sent"
    /\ req.route = "api"
    /\ reply.kind = "http"
    /\ reply.status = 503
    /\ reply.text = "not json"

\* C10: on /upload-image a success:false body never travels with a 2xx status,
\* and a 2xx status always carries {success:true, url}.
C10_UploadStatusMatchesBody ==
    \A i \in 1..Len(res) :
        (req.route = "upload" /\ res[i].type = "json") =>
            /\ Get(res[i].body, "success") = JBool(FALSE)
                  => ~InRange2xx(res[i].status)
            /\ InRange2xx(res[i].status)
                  => /\ Get(res[i].body, "success") = JBool(TRUE)
                     /\ HasKey(res[i].body, "url")

====
